---- MODULE Spec2Model ----
EXTENDS Integers, Sequences, FiniteSets, TLC

\* ---------------------------------------------------------------- bounds

\* longest page list the model lets confirmAddPages build
MaxPages == 4
\* pages of the longest PDF that is uploaded
MaxPdfPages == 3
\* objects on one fabric canvas
MaxObjects == 3
\* editor callbacks still outstanding after their canvas was disposed
MaxStale == 1
\* generatePDF calls running at the same time
MaxExports == 1
\* generatePDF calls running at the same time where exports may overlap
MaxOverlap == 2
\* handleAddPdfFile calls running at the same time
MaxAddJobs == 1
\* handleAddPdfFile calls running at the same time where the calls overlap
MaxAddOverlap == 2
\* pages of the long document, the shortest whose last progress value rounds up
LongPdfPages == 200
\* stamp files being read by one canvas at the same time
MaxStampReads == 1
\* largest left coordinate an object is dragged or duplicated to
MaxLeft == 120
\* clicks and drags the user makes on the canvases and their toolbars
MaxEdits == 3

\* ---------------------------------------------------------------- values

UPLOAD == "UPLOAD"
SELECT_PAGES == "SELECT_PAGES"
EDITOR == "EDITOR"
EXPORTING == "EXPORTING"

EditorSteps == {EDITOR, EXPORTING}

NoFile == "null"
PdfFiles == {"a.pdf", "b.pdf"}
BgFiles == {"letterhead.png", "broken.png"}
StampFile == "stamp.png"

\* pdf.numPages of an uploaded file
numPages(f) ==
    IF f = "a.pdf" THEN 1
    ELSE IF f = "long.pdf" THEN LongPdfPages
    ELSE MaxPdfPages

\* whether fabric.FabricImage.fromURL resolves for the image behind a url
Decodes(url) == url.file # "broken.png"

\* a React ref / optional value: <<>> is null, <<v>> holds v
Null == <<>>

\* canvasState is undefined until a scene was saved into the record
Undefined == [defined |-> FALSE, objects |-> <<>>]

\* a data URL: the image of page i of file f at a scale, or a whole image file
PageUrl(f, i, scale) == [file |-> f, page |-> i, scale |-> scale]
DataUrl(f) == PageUrl(f, 0, "1.0")
NoUrl == PageUrl(NoFile, 0, "")

\* a record that counts the pages from 0
ZeroBasedPage(id, i, f) ==
    [ id             |-> id,
      originalIndex  |-> i - 1,
      sourceFileName |-> f,
      thumbnailUrl   |-> PageUrl(f, i, "0.5"),
      fullResUrl     |-> PageUrl(f, i, "2.0"),
      isSelected     |-> TRUE,
      canvasState    |-> Undefined ]

ProcessedPage(id, i, f) ==
    [ id             |-> id,
      originalIndex  |-> i,
      sourceFileName |-> f,
      thumbnailUrl   |-> PageUrl(f, i, "0.5"),
      fullResUrl     |-> PageUrl(f, i, "2.0"),
      isSelected     |-> TRUE,
      canvasState    |-> Undefined ]

\* what an array slot holds after a splice inserted `undefined`
UndefinedPage ==
    [ id             |-> 0,
      originalIndex  |-> 0,
      sourceFileName |-> NoFile,
      thumbnailUrl   |-> NoUrl,
      fullResUrl     |-> NoUrl,
      isSelected     |-> FALSE,
      canvasState    |-> Undefined ]

\* ---------------------------------------------------------------- array helpers

Ids(ps) == {ps[k].id : k \in 1..Len(ps)}

IsSelected(p) == p.isSelected

\* the whole list, selected or not
AllOf(ps) == ps

\* pages.filter(p => p.isSelected)
SelectedOf(ps) == SelectSeq(ps, IsSelected)

\* the first index of a list that has one
FindFirst(ps) == IF ps = <<>> THEN -1 ELSE 0

\* pages.findIndex(p => p.isSelected): 0-based, -1 when there is none
FindFirstSelected(ps) ==
    IF \E k \in 1..Len(ps) : ps[k].isSelected
    THEN (CHOOSE k \in 1..Len(ps) :
              ps[k].isSelected /\ \A m \in 1..(k-1) : ~ps[m].isSelected) - 1
    ELSE -1

\* the record with this id is selected, whatever it was
SelectById(ps, id) ==
    [k \in 1..Len(ps) |->
        IF ps[k].id = id THEN [ps[k] EXCEPT !.isSelected = TRUE] ELSE ps[k]]

\* prev.map(p => p.id === id ? { ...p, isSelected: !p.isSelected } : p)
ToggleById(ps, id) ==
    [k \in 1..Len(ps) |->
        IF ps[k].id = id THEN [ps[k] EXCEPT !.isSelected = ~ps[k].isSelected]
        ELSE ps[k]]

\* the array left by a.splice(i, 1), i 0-based; nothing is removed past the end
SpliceOut(a, i) ==
    IF i < Len(a) THEN SubSeq(a, 1, i) \o SubSeq(a, i + 2, Len(a)) ELSE a

\* a.splice(i, 1)[0]
SplicedItem(a, i) == IF i < Len(a) THEN a[i + 1] ELSE UndefinedPage

\* the array left by a.splice(j, 0, x), j 0-based; a start past the end is clamped
SpliceIn(a, j, x) ==
    LET at == IF j < Len(a) THEN j ELSE Len(a)
    IN  SubSeq(a, 1, at) \o <<x>> \o SubSeq(a, at + 1, Len(a))

\* the two records trade places
SwapItems(ps, i, j) == [ps EXCEPT ![i + 1] = ps[j + 1], ![j + 1] = ps[i + 1]]

\* the body of handleSort on a copy of pages
MoveItem(ps, i, j) == SpliceIn(SpliceOut(ps, i), j, SplicedItem(ps, i))

\* ---------------------------------------------------------------- fabric scenes

BlendModes == {"source-over", "multiply"}

FabricImage(url, id, selectable, blend, left) ==
    [ src |-> url, id |-> id, selectable |-> selectable,
      globalCompositeOperation |-> blend, angle |-> 0, left |-> left ]

\* loadContent, fresh setup: the letterhead, locked and tagged
EditorBackground(bgUrl) == FabricImage(bgUrl, "background", FALSE, "source-over", 0)

\* loadContent, fresh setup: the PDF page image
EditorPageImage(url) == FabricImage(url, "pdf-page", TRUE, "multiply", 0)

\* handleAddImage: a stamp at (100, 100)
StampImage == FabricImage(DataUrl(StampFile), "", TRUE, "source-over", 100)

\* generatePDF, unedited page: bgImg and pdfImg
ExportBackground(bgUrl) == FabricImage(bgUrl, "", FALSE, "source-over", 0)
ExportPageImage(url) == FabricImage(url, "", TRUE, "multiply", 0)

\* object.toObject() with no propertiesToInclude: the custom id and the
\* interaction flags (selectable, evented, lockMovement) are not serialized
ObjectToJSON(o) ==
    [ src |-> o.src, globalCompositeOperation |-> o.globalCompositeOperation,
      angle |-> o.angle, left |-> o.left ]

\* canvas.toJSON()
ToJSON(objs) ==
    [defined |-> TRUE, objects |-> [k \in 1..Len(objs) |-> ObjectToJSON(objs[k])]]

\* the objects canvas.loadFromJSON(state) puts on the canvas
ObjectFromJSON(j) ==
    [ src |-> j.src, id |-> "", selectable |-> TRUE,
      globalCompositeOperation |-> j.globalCompositeOperation,
      angle |-> j.angle, left |-> j.left ]

FromJSON(state) ==
    [k \in 1..Len(state.objects) |-> ObjectFromJSON(state.objects[k])]

\* canvas.sendObjectToBack(objs[k]): index 1 is the bottom of the stack
SendToBack(objs, k) == <<objs[k]>> \o SubSeq(objs, 1, k - 1) \o SubSeq(objs, k + 1, Len(objs))

\* canvas.bringObjectForward(objs[k]): one step up, nothing at the top
BringForward(objs, k) ==
    IF k < Len(objs)
    THEN [objs EXCEPT ![k] = objs[k + 1], ![k + 1] = objs[k]]
    ELSE objs

\* canvas.remove(objs[k])
RemoveAt(objs, k) == SubSeq(objs, 1, k - 1) \o SubSeq(objs, k + 1, Len(objs))

\* canvas.getObjects().find(o => o.id === 'background'): its index, 0 if none
FindBackground(objs) ==
    IF \E k \in 1..Len(objs) : objs[k].id = "background"
    THEN CHOOSE k \in 1..Len(objs) :
             objs[k].id = "background" /\ \A m \in 1..(k-1) : objs[m].id # "background"
    ELSE 0

\* loadContent after loadFromJSON: re-lock the background and send it to the back
RelockBackground(objs) ==
    LET k == FindBackground(objs)
    IN  IF k = 0 THEN objs
        ELSE SendToBack([objs EXCEPT ![k].selectable = FALSE], k)

\* the default composition, whatever the record holds
FreshScene(pageData, bgUrl) ==
    <<[src |-> bgUrl, id |-> "", selectable |-> FALSE,
       globalCompositeOperation |-> "source-over", angle |-> 0, left |-> 0],
      [src |-> pageData.fullResUrl, id |-> "", selectable |-> TRUE,
       globalCompositeOperation |-> "multiply", angle |-> 0, left |-> 0]>>

\* what tempFabric holds when generatePDF renders one page
ExportScene(pageData, bgUrl) ==
    IF pageData.canvasState.defined
    THEN FromJSON(pageData.canvasState)
    ELSE <<ExportBackground(bgUrl), ExportPageImage(pageData.fullResUrl)>>

\* ---------------------------------------------------------------- state

VARIABLES
    step,             \* useState<AppStep>
    pdfFile,          \* useState<File | null>
    bgImageFile,      \* useState<string | null>
    pages,            \* useState<ProcessedPage[]>
    currentEditIndex, \* useState<number>, 0-based
    isProcessing,
    exportProgress,
    isAddModalOpen,
    tempNewPages,
    isProcessingNew,
    dragItem,         \* useRef<number | null>
    dragOverItem,     \* useRef<number | null>
    dragging,         \* a drag of a page card is under way
    crashed,          \* a render threw and React unmounted the tree
    uploadJob,        \* the file of the handleProcessUploads call in flight
    addJobs,          \* the files of the handleAddPdfFile calls in flight
    canvas,           \* the mounted FabricCanvas and its fabric.Canvas
    staleCalls,       \* onSaveState calls still to come from disposed canvases
    exports,          \* the generatePDF calls in flight
    savedDoc,         \* the pages of the file the last step wrote with doc.save
    savedFrom,        \* the page list as it was when that export started
    edits,            \* the clicks and drags made in the editor so far
    last              \* the handler that ran last, and its argument

dragVars == <<dragItem, dragOverItem, dragging>>
appVars == <<step, pdfFile, bgImageFile, pages, currentEditIndex, isProcessing,
             exportProgress, isAddModalOpen, tempNewPages, isProcessingNew,
             dragVars, crashed>>
jobVars == <<uploadJob, addJobs>>
editorVars == <<canvas, staleCalls>>
vars == <<appVars, jobVars, editorVars, exports, savedDoc, savedFrom, edits, last>>

Op(name, arg) == [op |-> name, arg |-> arg]

\* a step of handler `name` that writes no file
Did(name, arg) ==
    /\ last' = Op(name, arg)
    /\ savedDoc' = <<>>
    /\ savedFrom' = <<>>
    /\ edits' = edits

\* a click or drag in the editor, handled by `name`
DidEdit(name, arg) ==
    /\ edits < MaxEdits
    /\ last' = Op(name, arg)
    /\ savedDoc' = <<>>
    /\ savedFrom' = <<>>
    /\ edits' = edits + 1

\* a step that ends an export with doc.save('composed-document.pdf')
DidSave(name, doc, from) ==
    /\ last' = Op(name, 0)
    /\ savedDoc' = doc
    /\ savedFrom' = from
    /\ edits' = edits

NoCanvas ==
    [ mounted |-> FALSE, pageId |-> 0, idx |-> 0, backgroundUrl |-> NoUrl,
      pageContentUrl |-> NoUrl, initialState |-> Undefined, objects |-> <<>>,
      active |-> 0, attached |-> FALSE, loading |-> "done", stampReads |-> 0 ]

\* the FabricCanvas mounted for page p while currentEditIndex is cei: the props
\* and the onSaveState closure its init effect captures, and an empty fabric.Canvas
\* on which loadContent has started
MountCanvas(p, cei, bg) ==
    [ mounted |-> TRUE, pageId |-> p.id, idx |-> cei, backgroundUrl |-> DataUrl(bg),
      pageContentUrl |-> p.fullResUrl, initialState |-> p.canvasState,
      objects |-> <<>>, active |-> 0, attached |-> FALSE,
      loading |-> IF p.canvasState.defined THEN "json" ELSE "bg",
      stampReads |-> 0 ]

\* an onSaveState call made through the closure of a canvas that was mounted for
\* page pid at index idx
SaveCall(idx, pid, json) == [idx |-> idx, pageId |-> pid, json |-> json]

\* The callbacks a canvas leaves behind when its effect cleanup disposes it.
\* loadContent goes on after its await: dispose() emptied the canvas, the images
\* still to come are added to it, and the initial save runs through the closure
\* of the mount. A stamp read finds fabricRef.current null and saves undefined.
OrphanCalls(c) ==
    IF ~c.mounted THEN {}
    ELSE (IF c.loading = "bg" /\ Decodes(c.backgroundUrl)
          THEN {SaveCall(c.idx, c.pageId,
                         ToJSON(<<EditorBackground(c.backgroundUrl),
                                  EditorPageImage(c.pageContentUrl)>>))}
          ELSE IF c.loading = "page"
          THEN {SaveCall(c.idx, c.pageId, ToJSON(<<EditorPageImage(c.pageContentUrl)>>))}
          ELSE {})
         \cup
         (IF c.stampReads > 0 THEN {SaveCall(c.idx, c.pageId, Undefined)} ELSE {})

\* whether rendering App throws: an undefined element of pages, or no pages[currentEditIndex]
RenderThrows(st, ps, cei) ==
    \/ \E k \in 1..Len(ps) : ps[k] = UndefinedPage
    \/ st \in EditorSteps /\ cei >= Len(ps)

\* The render that follows a state update, and its effects: the FabricCanvas is
\* shown in the EDITOR and EXPORTING steps, keyed by the current page's id; a change
\* of key, or leaving those steps, disposes the old canvas and mounts a new one.
Rerender ==
    LET throws == RenderThrows(step', pages', currentEditIndex')
        show == step' \in EditorSteps /\ ~throws /\ ~crashed
        keep == /\ show
                /\ canvas.mounted
                /\ canvas.pageId = pages'[currentEditIndex' + 1].id
    IN  /\ crashed' = (crashed \/ throws)
        /\ canvas' = IF keep THEN canvas
                     ELSE IF show
                     THEN MountCanvas(pages'[currentEditIndex' + 1], currentEditIndex',
                                      bgImageFile')
                     ELSE NoCanvas
        /\ staleCalls' = IF keep THEN staleCalls ELSE staleCalls \cup OrphanCalls(canvas)
        /\ Cardinality(staleCalls') <= MaxStale

\* the modal of the add dialog covers the page-selection screen
ModalShown == step = SELECT_PAGES /\ isAddModalOpen

\* the user can click: the tree is mounted and the mouse is not dragging a card
UserCan == ~crashed /\ ~dragging

Init ==
    /\ step = UPLOAD
    /\ pdfFile = NoFile
    /\ bgImageFile = NoFile
    /\ pages = <<>>
    /\ currentEditIndex = 0
    /\ isProcessing = FALSE
    /\ exportProgress = 0
    /\ isAddModalOpen = FALSE
    /\ tempNewPages = <<>>
    /\ isProcessingNew = FALSE
    /\ dragItem = Null
    /\ dragOverItem = Null
    /\ dragging = FALSE
    /\ crashed = FALSE
    /\ uploadJob = NoFile
    /\ addJobs = <<>>
    /\ canvas = NoCanvas
    /\ staleCalls = {}
    /\ exports = <<>>
    /\ savedDoc = <<>>
    /\ savedFrom = <<>>
    /\ edits = 0
    /\ last = Op("init", 0)

\* ---------------------------------------------------------------- generateId

\* every id some record or closure still refers to
UsedIds ==
    Ids(pages) \cup Ids(tempNewPages) \cup {canvas.pageId}
    \cup {c.pageId : c \in staleCalls}
    \cup UNION {Ids(exports[e].from) : e \in 1..Len(exports)}

\* n ids as generateId hands them out: distinct, and different from every id in use
FreshIds(used, n) ==
    [k \in 1..n |->
        CHOOSE i \in 1..(Cardinality(used) + n) :
            /\ i \notin used
            /\ i - Cardinality({m \in used : m < i}) = k]

\* the list both PDF loops build: one record per page, 1..numPages, all selected
RenderAllPages(f) ==
    LET ids == FreshIds(UsedIds, numPages(f))
    IN  [i \in 1..numPages(f) |-> ProcessedPage(ids[i], i, f)]

\* ---------------------------------------------------------------- step 1: upload

onDropPdf(f) ==
    /\ step = UPLOAD /\ UserCan
    /\ pdfFile' = f
    /\ Did("onDropPdf", 0)
    /\ UNCHANGED <<step, bgImageFile, pages, currentEditIndex, isProcessing,
                   exportProgress, isAddModalOpen, tempNewPages, isProcessingNew,
                   dragVars, crashed, jobVars, editorVars, exports>>

\* the FileReader of onDropBg delivers the data URL before the next user event
onDropBg(f) ==
    /\ step = UPLOAD /\ UserCan
    /\ bgImageFile' = f
    /\ Did("onDropBg", 0)
    /\ UNCHANGED <<step, pdfFile, pages, currentEditIndex, isProcessing,
                   exportProgress, isAddModalOpen, tempNewPages, isProcessingNew,
                   dragVars, crashed, jobVars, editorVars, exports>>

\* handleProcessUploads up to its first await; the button is disabled while
\* a file is missing or isProcessing is set
handleProcessUploads ==
    /\ step = UPLOAD /\ UserCan
    /\ pdfFile # NoFile /\ bgImageFile # NoFile /\ ~isProcessing
    /\ isProcessing' = TRUE
    /\ uploadJob' = pdfFile
    /\ Did("handleProcessUploads", 0)
    /\ UNCHANGED <<step, pdfFile, bgImageFile, pages, currentEditIndex,
                   exportProgress, isAddModalOpen, tempNewPages, isProcessingNew,
                   dragVars, crashed, addJobs, editorVars, exports>>

\* handleProcessUploads after its last await: the try block ends, then finally
ProcessUploadsDone ==
    /\ uploadJob # NoFile /\ ~crashed
    /\ pages' = RenderAllPages(uploadJob)
    /\ step' = SELECT_PAGES
    /\ isProcessing' = FALSE
    /\ uploadJob' = NoFile
    /\ dragging' = FALSE
    /\ Did("ProcessUploadsDone", 0)
    /\ UNCHANGED <<pdfFile, bgImageFile, currentEditIndex, exportProgress,
                   isAddModalOpen, tempNewPages, isProcessingNew, dragItem,
                   dragOverItem, addJobs, exports>>
    /\ Rerender

\* the rejection is caught and nothing else is done
UploadFailedNoFinally ==
    /\ uploadJob # NoFile /\ ~crashed
    /\ uploadJob' = NoFile
    /\ Did("ProcessUploadsFailed", 0)
    /\ UNCHANGED <<step, pdfFile, bgImageFile, pages, currentEditIndex, isProcessing,
                   exportProgress, isAddModalOpen, tempNewPages, isProcessingNew,
                   dragVars, crashed, addJobs, editorVars, exports>>

\* loadPdf or renderPageToImage rejected: catch, then finally
ProcessUploadsFailed ==
    /\ uploadJob # NoFile /\ ~crashed
    /\ isProcessing' = FALSE
    /\ uploadJob' = NoFile
    /\ Did("ProcessUploadsFailed", 0)
    /\ UNCHANGED <<step, pdfFile, bgImageFile, pages, currentEditIndex,
                   exportProgress, isAddModalOpen, tempNewPages, isProcessingNew,
                   dragVars, crashed, addJobs, editorVars, exports>>

\* ---------------------------------------------------------------- step 2: select pages

\* the back button of the page-selection header
BackToUpload ==
    /\ step = SELECT_PAGES /\ UserCan /\ ~ModalShown
    /\ step' = UPLOAD
    /\ Did("BackToUpload", 0)
    /\ UNCHANGED <<pdfFile, bgImageFile, pages, currentEditIndex, isProcessing,
                   exportProgress, isAddModalOpen, tempNewPages, isProcessingNew,
                   dragVars, jobVars, exports>>
    /\ Rerender

\* handleAddPdfFile up to its first await
handleAddPdfFile(f) ==
    /\ step = SELECT_PAGES /\ UserCan /\ ~ModalShown
    /\ isProcessingNew' = TRUE
    /\ isAddModalOpen' = TRUE
    /\ tempNewPages' = <<>>
    /\ addJobs' = Append(addJobs, f)
    /\ Did("handleAddPdfFile", 0)
    /\ UNCHANGED <<step, pdfFile, bgImageFile, pages, currentEditIndex, isProcessing,
                   exportProgress, dragVars, crashed, uploadJob,
                   editorVars, exports>>

\* handleAddPdfFile after its last await: setTempNewPages, then finally
AddPdfDone(k) ==
    /\ k \in 1..Len(addJobs) /\ ~crashed
    /\ tempNewPages' = RenderAllPages(addJobs[k])
    /\ isProcessingNew' = FALSE
    /\ addJobs' = RemoveAt(addJobs, k)
    /\ Did("AddPdfDone", 0)
    /\ UNCHANGED <<step, pdfFile, bgImageFile, pages, currentEditIndex, isProcessing,
                   exportProgress, isAddModalOpen, dragVars, crashed,
                   uploadJob, editorVars, exports>>

\* loadPdf or renderPageToImage rejected: catch, then finally
AddPdfFailed(k) ==
    /\ k \in 1..Len(addJobs) /\ ~crashed
    /\ isAddModalOpen' = FALSE
    /\ isProcessingNew' = FALSE
    /\ addJobs' = RemoveAt(addJobs, k)
    /\ Did("AddPdfFailed", 0)
    /\ UNCHANGED <<step, pdfFile, bgImageFile, pages, currentEditIndex, isProcessing,
                   exportProgress, tempNewPages, dragVars, crashed,
                   uploadJob, editorVars, exports>>

\* a click on a card of the add dialog; the cards show once processing is over
toggleTempPageSelection(id) ==
    /\ ModalShown /\ UserCan /\ ~isProcessingNew
    /\ id \in Ids(tempNewPages)
    /\ tempNewPages' = ToggleById(tempNewPages, id)
    /\ Did("toggleTempPageSelection", 0)
    /\ UNCHANGED <<step, pdfFile, bgImageFile, pages, currentEditIndex, isProcessing,
                   exportProgress, isAddModalOpen, isProcessingNew, dragVars, crashed, jobVars, editorVars, exports>>

\* the confirm button is disabled while processing or with nothing selected
confirmAddPages ==
    /\ ModalShown /\ UserCan /\ ~isProcessingNew
    /\ SelectedOf(tempNewPages) # <<>>
    /\ Len(pages) + Len(SelectedOf(tempNewPages)) <= MaxPages
    /\ pages' = pages \o SelectedOf(tempNewPages)
    /\ isAddModalOpen' = FALSE
    /\ tempNewPages' = <<>>
    /\ Did("confirmAddPages", 0)
    /\ UNCHANGED <<step, pdfFile, bgImageFile, currentEditIndex, isProcessing,
                   exportProgress, isProcessingNew, dragVars,
                   jobVars, exports>>
    /\ Rerender

cancelAddPages ==
    /\ ModalShown /\ UserCan
    /\ isAddModalOpen' = FALSE
    /\ tempNewPages' = <<>>
    /\ Did("cancelAddPages", 0)
    /\ UNCHANGED <<step, pdfFile, bgImageFile, pages, currentEditIndex, isProcessing,
                   exportProgress, isProcessingNew, dragVars, crashed,
                   jobVars, editorVars, exports>>

\* onDragStart of the card at index i
onDragStart(i) ==
    /\ step = SELECT_PAGES /\ UserCan /\ ~ModalShown
    /\ i \in 0..(Len(pages) - 1)
    /\ dragItem' = <<i>>
    /\ dragging' = TRUE
    /\ Did("onDragStart", 0)
    /\ UNCHANGED <<step, pdfFile, bgImageFile, pages, currentEditIndex, isProcessing,
                   exportProgress, isAddModalOpen, tempNewPages, isProcessingNew,
                   dragOverItem, crashed, jobVars, editorVars, exports>>

\* onDragEnter of the card at index j, while a card is dragged
onDragEnter(j) ==
    /\ step = SELECT_PAGES /\ ~crashed /\ dragging
    /\ j \in 0..(Len(pages) - 1)
    /\ dragOverItem' = <<j>>
    /\ dragOverItem # <<j>>
    /\ Did("onDragEnter", 0)
    /\ UNCHANGED <<step, pdfFile, bgImageFile, pages, currentEditIndex, isProcessing,
                   exportProgress, isAddModalOpen, tempNewPages, isProcessingNew,
                   dragItem, dragging, crashed, jobVars, editorVars, exports>>

\* onDragEnd of the dragged card: the drag is over
handleSort ==
    /\ step = SELECT_PAGES /\ ~crashed /\ dragging
    /\ dragging' = FALSE
    /\ Did("handleSort", 0)
    /\ IF dragItem = Null \/ dragOverItem = Null
       THEN UNCHANGED <<pages, dragItem, dragOverItem, crashed, editorVars>>
       ELSE /\ pages' = MoveItem(pages, dragItem[1], dragOverItem[1])
            /\ dragItem' = Null
            /\ dragOverItem' = Null
            /\ UNCHANGED <<step, currentEditIndex, bgImageFile>>
            /\ Rerender
    /\ UNCHANGED <<step, pdfFile, bgImageFile, currentEditIndex, isProcessing,
                   exportProgress, isAddModalOpen, tempNewPages, isProcessingNew,
                   jobVars, exports>>

\* a click on the card of the page with this id
togglePageSelection(id) ==
    /\ step = SELECT_PAGES /\ UserCan /\ ~ModalShown
    /\ id \in Ids(pages)
    /\ pages' = ToggleById(pages, id)
    /\ Did("togglePageSelection", id)
    /\ UNCHANGED <<step, pdfFile, bgImageFile, currentEditIndex, isProcessing,
                   exportProgress, isAddModalOpen, tempNewPages, isProcessingNew,
                   dragVars, jobVars, exports>>
    /\ Rerender

\* the edit button runs startEditing; it is disabled exactly when findIndex finds nothing
startEditing ==
    /\ step = SELECT_PAGES /\ UserCan /\ ~ModalShown
    /\ Did("startEditing", 0)
    /\ IF FindFirstSelected(pages) = -1
       THEN UNCHANGED <<step, currentEditIndex, crashed, editorVars>>
       ELSE /\ currentEditIndex' = FindFirstSelected(pages)
            /\ step' = EDITOR
            /\ UNCHANGED <<pages, bgImageFile>>
            /\ Rerender
    /\ UNCHANGED <<pdfFile, bgImageFile, pages, isProcessing, exportProgress,
                   isAddModalOpen, tempNewPages, isProcessingNew, dragVars, jobVars, exports>>

\* ---------------------------------------------------------------- step 3: editor

\* handleSavePageState as closed over currentEditIndex = cei
SavePageState(prev, cei, json) == [prev EXCEPT ![cei + 1].canvasState = json]

\* the back button of the editor header, also shown while exporting
BackToSelect ==
    /\ step \in EditorSteps /\ UserCan
    /\ step' = SELECT_PAGES
    /\ Did("BackToSelect", 0)
    /\ UNCHANGED <<pdfFile, bgImageFile, pages, currentEditIndex, isProcessing,
                   exportProgress, isAddModalOpen, tempNewPages, isProcessingNew,
                   dragVars, jobVars, exports>>
    /\ Rerender

\* a click on a sidebar thumbnail; the sidebar shows the selected pages only
changePage(index) ==
    /\ step \in EditorSteps /\ UserCan
    /\ index \in 0..(Len(pages) - 1)
    /\ pages[index + 1].isSelected
    /\ index # currentEditIndex
    /\ currentEditIndex' = index
    /\ Did("changePage", 0)
    /\ UNCHANGED <<step, pdfFile, bgImageFile, pages, isProcessing,
                   exportProgress, isAddModalOpen, tempNewPages, isProcessingNew,
                   dragVars, jobVars, exports>>
    /\ Rerender

\* objects the canvas will hold once loadContent is through
ExpectedObjects(c) ==
    CASE c.loading = "bg"   -> Len(c.objects) + 2
      [] c.loading = "page" -> Len(c.objects) + 1
      [] c.loading = "json" -> IF Len(c.objects) > Len(c.initialState.objects)
                               THEN Len(c.objects) ELSE Len(c.initialState.objects)
      [] OTHER              -> Len(c.objects)

\* onSaveState(canvas.toJSON()) from the mounted canvas
SaveScene(objs) == pages' = SavePageState(pages, canvas.idx, ToJSON(objs))

editorFrame == <<step, pdfFile, bgImageFile, currentEditIndex, isProcessing,
                 exportProgress, isAddModalOpen, tempNewPages, isProcessingNew,
                 dragVars, crashed, jobVars, staleCalls, exports>>

\* loadContent, fresh setup, after await fromURL(backgroundUrl): the image goes to
\* the back; a rejected load is caught and attachEvents still runs
LoadBackgroundDone ==
    /\ canvas.mounted /\ canvas.loading = "bg"
    /\ canvas' =
         IF Decodes(canvas.backgroundUrl)
         THEN [canvas EXCEPT
                 !.objects = <<EditorBackground(canvas.backgroundUrl)>> \o canvas.objects,
                 !.active = IF canvas.active = 0 THEN 0 ELSE canvas.active + 1,
                 !.loading = "page"]
         ELSE [canvas EXCEPT !.loading = "done", !.attached = TRUE]
    /\ Did("LoadBackgroundDone", canvas.pageId)
    /\ UNCHANGED <<pages, editorFrame>>

\* loadContent, fresh setup, after await fromURL(pageContentUrl): add, initial save,
\* attachEvents
LoadPageImageDone ==
    /\ canvas.mounted /\ canvas.loading = "page"
    /\ LET objs == Append(canvas.objects, EditorPageImage(canvas.pageContentUrl))
       IN  /\ canvas' = [canvas EXCEPT !.objects = objs, !.loading = "done",
                                       !.attached = TRUE]
           /\ SaveScene(objs)
    /\ Did("LoadPageImageDone", canvas.pageId)
    /\ UNCHANGED editorFrame

\* loadContent after await loadFromJSON(initialState): the canvas is cleared and
\* holds the loaded objects; no save
LoadStateDone ==
    /\ canvas.mounted /\ canvas.loading = "json"
    /\ canvas' = [canvas EXCEPT
                    !.objects = RelockBackground(FromJSON(canvas.initialState)),
                    !.active = 0, !.loading = "done", !.attached = TRUE]
    /\ Did("LoadStateDone", canvas.pageId)
    /\ UNCHANGED <<pages, editorFrame>>

\* the user can reach the canvas and its toolbar: not under the export overlay
EditorOpen == canvas.mounted /\ step = EDITOR /\ UserCan

\* a click on object k selects it
SelectObject(k) ==
    /\ EditorOpen
    /\ k \in 1..Len(canvas.objects)
    /\ canvas.objects[k].selectable
    /\ canvas.active # k
    /\ canvas' = [canvas EXCEPT !.active = k]
    /\ DidEdit("SelectObject", canvas.pageId)
    /\ UNCHANGED <<pages, editorFrame>>

\* the user drags object k: fabric moves it and fires object:modified
objectModified(k, left) ==
    /\ EditorOpen
    /\ k \in 1..Len(canvas.objects)
    /\ canvas.objects[k].selectable
    /\ canvas.objects[k].left # left
    /\ LET objs == [canvas.objects EXCEPT ![k].left = left]
       IN  /\ canvas' = [canvas EXCEPT !.objects = objs, !.active = k]
           /\ IF canvas.attached THEN SaveScene(objs) ELSE UNCHANGED pages
    /\ DidEdit("objectModified", canvas.pageId)
    /\ UNCHANGED editorFrame

\* handleAddImage: the FileReader starts
handleAddImage ==
    /\ EditorOpen
    /\ canvas.stampReads < MaxStampReads
    /\ ExpectedObjects(canvas) + canvas.stampReads < MaxObjects
    /\ canvas' = [canvas EXCEPT !.stampReads = @ + 1]
    /\ DidEdit("handleAddImage", canvas.pageId)
    /\ UNCHANGED <<pages, editorFrame>>

\* reader.onload and fromURL are through: add on top, select, save
StampLoaded ==
    /\ canvas.mounted /\ canvas.stampReads > 0 /\ ~crashed
    /\ LET objs == Append(canvas.objects, StampImage)
       IN  /\ canvas' = [canvas EXCEPT !.objects = objs, !.active = Len(objs),
                                       !.stampReads = @ - 1]
           /\ SaveScene(objs)
    /\ Did("StampLoaded", canvas.pageId)
    /\ UNCHANGED editorFrame

\* fromURL rejected the stamp file: caught and logged
StampFailed ==
    /\ canvas.mounted /\ canvas.stampReads > 0 /\ ~crashed
    /\ canvas' = [canvas EXCEPT !.stampReads = @ - 1]
    /\ Did("StampFailed", canvas.pageId)
    /\ UNCHANGED <<pages, editorFrame>>

\* the blend mode select of the toolbar
updateSelectedProp(blend) ==
    /\ EditorOpen /\ canvas.active # 0
    /\ canvas.objects[canvas.active].globalCompositeOperation # blend
    /\ LET objs == [canvas.objects EXCEPT
                       ![canvas.active].globalCompositeOperation = blend]
       IN  /\ canvas' = [canvas EXCEPT !.objects = objs]
           /\ SaveScene(objs)
    /\ DidEdit("updateSelectedProp", canvas.pageId)
    /\ UNCHANGED editorFrame

deleteSelected ==
    /\ EditorOpen /\ canvas.active # 0
    /\ canvas.objects[canvas.active].id # "background"
    /\ LET objs == RemoveAt(canvas.objects, canvas.active)
       IN  /\ canvas' = [canvas EXCEPT !.objects = objs, !.active = 0]
           /\ SaveScene(objs)
    /\ DidEdit("deleteSelected", canvas.pageId)
    /\ UNCHANGED editorFrame

\* activeObj.clone() goes through toObject and back; the clone is added on top
ClonedObject(o) == [ObjectFromJSON(ObjectToJSON(o)) EXCEPT !.left = o.left + 20]

\* duplicateSelected, its clone resolved before the next event
duplicateSelected ==
    /\ EditorOpen /\ canvas.active # 0
    /\ Len(canvas.objects) + canvas.stampReads < MaxObjects
    /\ canvas.objects[canvas.active].left + 20 <= MaxLeft
    /\ LET objs == Append(canvas.objects, ClonedObject(canvas.objects[canvas.active]))
       IN  /\ canvas' = [canvas EXCEPT !.objects = objs, !.active = Len(objs)]
           /\ SaveScene(objs)
    /\ DidEdit("duplicateSelected", canvas.pageId)
    /\ UNCHANGED editorFrame

rotateSelected ==
    /\ EditorOpen /\ canvas.active # 0
    /\ LET objs == [canvas.objects EXCEPT ![canvas.active].angle = (@ + 90) % 360]
       IN  /\ canvas' = [canvas EXCEPT !.objects = objs]
           /\ SaveScene(objs)
    /\ DidEdit("rotateSelected", canvas.pageId)
    /\ UNCHANGED editorFrame

\* the layer button: bringObjectForward, then save
bringForward ==
    /\ EditorOpen /\ canvas.active # 0
    /\ LET objs == BringForward(canvas.objects, canvas.active)
       IN  /\ canvas' = [canvas EXCEPT
                           !.objects = objs,
                           !.active = IF canvas.active < Len(objs)
                                      THEN canvas.active + 1 ELSE canvas.active]
           /\ SaveScene(objs)
    /\ DidEdit("bringForward", canvas.pageId)
    /\ UNCHANGED editorFrame

\* an onSaveState call of a disposed canvas arrives: handleSavePageState runs with
\* the currentEditIndex its closure holds. A call whose index lies past the end of
\* the list stays outstanding.
StaleSave(c) ==
    /\ c \in staleCalls /\ ~crashed
    /\ c.idx < Len(pages)
    /\ pages' = SavePageState(pages, c.idx, c.json)
    /\ staleCalls' = staleCalls \ {c}
    /\ Did("StaleSave", c.pageId)
    /\ UNCHANGED <<step, pdfFile, bgImageFile, currentEditIndex, isProcessing,
                   exportProgress, isAddModalOpen, tempNewPages, isProcessingNew,
                   dragVars, crashed, jobVars, canvas, exports>>

\* ---------------------------------------------------------------- step 4: export

\* a page of the jsPDF document: blank, or holding the image drawn by addImage
BlankPage == [hasImage |-> FALSE, pageId |-> 0, objects |-> <<>>]

\* tempFabric.toDataURL() of the scene rendered for pageData
RenderedImage(pageData, bgUrl) ==
    [ hasImage |-> TRUE, pageId |-> pageData.id,
      objects |-> ToJSON(ExportScene(pageData, bgUrl)).objects ]

\* every image is drawn on the page the document has
AddToSamePage(doc, i, img) == [doc EXCEPT ![Len(doc)] = img]

\* if (i > 0) doc.addPage(); doc.addImage(imgData, ...): i is the loop index
AddToDoc(doc, i, img) ==
    LET d == IF i > 0 THEN Append(doc, BlankPage) ELSE doc
    IN  [d EXCEPT ![Len(d)] = img]

\* Math.round((i / total) * 100): halves round up. The quotient is exact here; a
\* double can fall just short of a half that the exact quotient reaches (23 / 40),
\* and agrees with the exact value at 199 / 200.
RoundPercent(i, total) == (200 * i + total) \div (2 * total)

\* whether rendering pageData throws: an unedited page needs the letterhead image
RenderFails(pageData, bgUrl) == ~pageData.canvasState.defined /\ ~Decodes(bgUrl)

\* a number that tells a call of generatePDF from the other calls in flight
FreshCall(xs) ==
    CHOOSE k \in 1..(Len(xs) + 1) : \A e \in 1..Len(xs) : xs[e].n # k

\* generatePDF up to its first await. With nothing selected the loop body never
\* runs and the whole call, save and finally included, is one synchronous step.
generatePDF ==
    /\ step = EDITOR /\ UserCan
    /\ bgImageFile # NoFile
    /\ LET selectedPages == SelectedOf(pages)
       IN  IF selectedPages = <<>>
           THEN /\ exportProgress' = 100
                /\ DidSave("generatePDF", <<BlankPage>>, pages)
                /\ UNCHANGED <<step, exports>>
           ELSE /\ exportProgress' = RoundPercent(0, Len(selectedPages))
                /\ step' = EXPORTING
                /\ exports' = Append(exports,
                                 [ selectedPages |-> selectedPages, i |-> 0,
                                   doc |-> <<BlankPage>>,
                                   backgroundUrl |-> DataUrl(bgImageFile),
                                   from |-> pages,
                                   n |-> FreshCall(exports) ])
                /\ Did("generatePDF", 0)
    /\ UNCHANGED <<pdfFile, bgImageFile, pages, currentEditIndex, isProcessing,
                   isAddModalOpen, tempNewPages, isProcessingNew, dragVars, jobVars>>
    /\ Rerender

\* One turn of the loop of export e, from the awaits of page i to those of page
\* i + 1 or to the end of the call. State setters do nothing once the tree is gone;
\* leaving the page-selection screen ends a drag of one of its cards.
ExportPage(e) ==
    /\ e \in 1..Len(exports)
    /\ LET x == exports[e]
           total == Len(x.selectedPages)
           pageData == x.selectedPages[x.i + 1]
           doc == AddToDoc(x.doc, x.i, RenderedImage(pageData, x.backgroundUrl))
       IN  IF RenderFails(pageData, x.backgroundUrl)
           THEN \* catch, then finally
                /\ exports' = RemoveAt(exports, e)
                /\ step' = IF crashed THEN step ELSE EDITOR
                /\ dragging' = (dragging /\ crashed)
                /\ Did("ExportFailed", 0)
                /\ UNCHANGED exportProgress
           ELSE IF x.i + 1 < total
           THEN /\ exports' = [exports EXCEPT ![e].i = x.i + 1, ![e].doc = doc]
                /\ exportProgress' = IF crashed THEN exportProgress
                                      ELSE RoundPercent(x.i + 1, total)
                /\ Did("ExportPage", 0)
                /\ UNCHANGED <<step, dragging>>
           ELSE \* the loop is over: doc.save, then finally
                /\ exports' = RemoveAt(exports, e)
                /\ exportProgress' = IF crashed THEN exportProgress ELSE 100
                /\ step' = IF crashed THEN step ELSE EDITOR
                /\ dragging' = (dragging /\ crashed)
                /\ DidSave("ExportSaved", doc, x.from)
    /\ UNCHANGED <<pdfFile, bgImageFile, pages, currentEditIndex, isProcessing,
                   isAddModalOpen, tempNewPages, isProcessingNew, dragItem,
                   dragOverItem, jobVars>>
    /\ Rerender

\* ---------------------------------------------------------------- specification

GoodBgFiles == {"letterhead.png"}

\* both files are dropped and processed
UploadSteps ==
    \/ \E f \in PdfFiles : onDropPdf(f)
    \/ \E f \in GoodBgFiles : onDropBg(f)
    \/ handleProcessUploads
    \/ ProcessUploadsDone

\* the cards of the page-selection screen are clicked and dragged
SelectSteps ==
    \/ \E i \in 0..(MaxPages - 1) : onDragStart(i)
    \/ \E j \in 0..(MaxPages - 1) : onDragEnter(j)
    \/ handleSort
    \/ \E id \in Ids(pages) : togglePageSelection(id)
    \/ startEditing

\* the add dialog
AddSteps ==
    \/ \E f \in PdfFiles : Len(addJobs) < MaxAddJobs /\ handleAddPdfFile(f)
    \/ \E k \in 1..MaxAddJobs : AddPdfDone(k)
    \/ \E k \in 1..MaxAddJobs : AddPdfFailed(k)
    \/ \E id \in Ids(tempNewPages) : toggleTempPageSelection(id)
    \/ confirmAddPages
    \/ cancelAddPages

\* the same steps with a second call started before the first has ended
AddOverlapSteps ==
    \/ \E f \in PdfFiles : Len(addJobs) < MaxAddOverlap /\ handleAddPdfFile(f)
    \/ \E k \in 1..MaxAddOverlap : AddPdfDone(k)
    \/ \E k \in 1..MaxAddOverlap : AddPdfFailed(k)
    \/ \E id \in Ids(tempNewPages) : toggleTempPageSelection(id)
    \/ confirmAddPages
    \/ cancelAddPages

\* the editor is entered and left, and each canvas loads its content
VisitSteps ==
    \/ BackToSelect
    \/ LoadBackgroundDone
    \/ LoadPageImageDone
    \/ LoadStateDone

\* the sidebar thumbnails of the editor
SidebarSteps == \E index \in 0..(MaxPages - 1) : changePage(index)

\* callbacks of disposed canvases arrive
StaleSteps == \E c \in staleCalls : StaleSave(c)

\* the objects of the mounted canvas are edited
EditSteps ==
    \/ \E k \in 1..MaxObjects : SelectObject(k)
    \/ \E k \in 1..MaxObjects : objectModified(k, MaxLeft)
    \/ handleAddImage
    \/ StampLoaded
    \/ StampFailed
    \/ \E blend \in BlendModes : updateSelectedProp(blend)
    \/ deleteSelected
    \/ duplicateSelected
    \/ rotateSelected
    \/ bringForward

\* exports, one at a time
ExportSteps ==
    \/ Len(exports) < MaxExports /\ generatePDF
    \/ \E e \in 1..MaxExports : ExportPage(e)

\* exports that may overlap
OverlapSteps ==
    \/ Len(exports) < MaxOverlap /\ generatePDF
    \/ \E e \in 1..MaxOverlap : ExportPage(e)

\* the rejection is caught and the finally block is missing
ExportThrowsNoFinally(e) ==
    /\ e \in 1..Len(exports)
    /\ exports' = RemoveAt(exports, e)
    /\ dragging' = (dragging /\ crashed)
    /\ Did("ExportFailed", 0)
    /\ UNCHANGED <<step, pdfFile, bgImageFile, pages, currentEditIndex, isProcessing,
                   exportProgress, isAddModalOpen, tempNewPages, isProcessingNew,
                   dragItem, dragOverItem, jobVars>>
    /\ Rerender

\* a turn of the loop of export e throws: loadFromJSON or fromURL rejects, or
\* toDataURL or addImage throws; catch, then finally
ExportThrows(e) ==
    /\ e \in 1..Len(exports)
    /\ exports' = RemoveAt(exports, e)
    /\ step' = IF crashed THEN step ELSE EDITOR
    /\ dragging' = (dragging /\ crashed)
    /\ Did("ExportFailed", 0)
    /\ UNCHANGED <<pdfFile, bgImageFile, pages, currentEditIndex, isProcessing,
                   exportProgress, isAddModalOpen, tempNewPages, isProcessingNew,
                   dragItem, dragOverItem, jobVars>>
    /\ Rerender

ThrowSteps == \E e \in 1..MaxExports : ExportThrows(e)

\* the upload screen with the long document
LongUploadSteps ==
    \/ onDropPdf("long.pdf")
    \/ \E f \in GoodBgFiles : onDropBg(f)
    \/ handleProcessUploads
    \/ ProcessUploadsDone

FailureSteps ==
    \/ \E f \in BgFiles \ GoodBgFiles : onDropBg(f)
    \/ ProcessUploadsFailed

Next ==
    \/ UploadSteps
    \/ BackToUpload
    \/ SelectSteps
    \/ AddSteps
    \/ VisitSteps
    \/ SidebarSteps
    \/ StaleSteps
    \/ EditSteps
    \/ ExportSteps
    \/ ThrowSteps
    \/ FailureSteps

\* the whole program
Spec == Init /\ [][Next]_vars

\* one upload, then page selection, reordering and visits to the editor
NextSelect == UploadSteps \/ SelectSteps \/ VisitSteps
SpecSelect == Init /\ [][NextSelect]_vars

\* uploads, repeated after going back to the first screen
NextUpload ==
    \/ UploadSteps
    \/ BackToUpload
    \/ \E id \in Ids(pages) : togglePageSelection(id)
    \/ startEditing
    \/ VisitSteps
SpecUpload == Init /\ [][NextUpload]_vars

\* the add dialog is cancelled while a file is read and another file is picked
NextAddOverlap ==
    \/ UploadSteps
    \/ AddOverlapSteps
SpecAddOverlap == Init /\ [][NextAddOverlap]_vars

\* one upload, then the add dialog
NextAdd ==
    \/ UploadSteps
    \/ \E id \in Ids(pages) : togglePageSelection(id)
    \/ AddSteps
SpecAdd == Init /\ [][NextAdd]_vars

\* pages are selected, visited in the editor and exported
NextExport ==
    \/ UploadSteps
    \/ \E id \in Ids(pages) : togglePageSelection(id)
    \/ startEditing
    \/ VisitSteps
    \/ SidebarSteps
    \/ ExportSteps
SpecExport == Init /\ [][NextExport]_vars

\* the scene of the first page is edited, left, reopened and exported
NextEditor == UploadSteps \/ startEditing \/ VisitSteps \/ EditSteps \/ ExportSteps
SpecEditor == Init /\ [][NextEditor]_vars

\* a scene is reopened, and its layers are selected, raised and deleted
NextLayers ==
    \/ UploadSteps
    \/ startEditing
    \/ VisitSteps
    \/ \E k \in 1..MaxObjects : SelectObject(k)
    \/ bringForward
    \/ deleteSelected
    \/ ExportSteps
SpecLayers == Init /\ [][NextLayers]_vars

\* the editor is left and entered again while exports run
NextOverlap ==
    \/ UploadSteps
    \/ startEditing
    \/ VisitSteps
    \/ OverlapSteps
SpecOverlap == Init /\ [][NextOverlap]_vars

\* the long document is exported and a page of it fails to render
NextLongExport ==
    \/ LongUploadSteps
    \/ startEditing
    \/ ExportSteps
    \/ ThrowSteps
SpecLongExport == Init /\ [][NextLongExport]_vars

\* exports run, throw and overlap while the user walks between the page list and the
\* editor;
\* every await of generatePDF is on a promise that settles, so a call in flight
\* is always given its next turn
NextFinish ==
    \/ UploadSteps
    \/ startEditing
    \/ BackToSelect
    \/ SidebarSteps
    \/ OverlapSteps
    \/ ThrowSteps
SpecFinish ==
    /\ Init /\ [][NextFinish]_vars
    /\ \A e \in 1..MaxOverlap : WF_vars(ExportPage(e))

\* uploads that fail, before and after a list was built
NextUploadFail ==
    \/ UploadSteps
    \/ ProcessUploadsFailed
    \/ BackToUpload
    \/ \E id \in Ids(pages) : togglePageSelection(id)
SpecUploadFail == Init /\ [][NextUploadFail]_vars

\* the editor is left while callbacks are outstanding, and the list is reordered
NextStale ==
    \/ UploadSteps
    \/ \E i \in 0..(MaxPages - 1) : onDragStart(i)
    \/ \E j \in 0..(MaxPages - 1) : onDragEnter(j)
    \/ handleSort
    \/ startEditing
    \/ VisitSteps
    \/ StaleSteps
SpecStale == Init /\ [][NextStale]_vars

\* ---------------------------------------------------------------- properties

\* a sequence without its k-th element, k 1-based
Without(s, k) == [m \in 1..(Len(s) - 1) |-> IF m < k THEN s[m] ELSE s[m + 1]]

\* C3: a handleSort call with both drag refs set leaves a permutation of the list:
\* the length is kept, the record that was at index dragItem is at index
\* dragOverItem, and the other records are the same records in the same relative
\* order; with a ref unset the list is left as it is.
C3_handleSortMovesOneRecord ==
    [][ last'.op = "handleSort" =>
          IF dragItem = Null \/ dragOverItem = Null
          THEN pages' = pages
          ELSE LET i == dragItem[1] + 1
                   j == dragOverItem[1] + 1
               IN  /\ Len(pages') = Len(pages)
                   /\ pages'[j] = pages[i]
                   /\ Without(pages', j) = Without(pages, i) ]_vars

\* handleSort has moved the first record of a three-page list to the end
C3_Witness ==
    /\ last.op = "handleSort"
    /\ dragItem = Null
    /\ Len(pages) = 3
    /\ pages[3].originalIndex = 1
    /\ pages[1].originalIndex = 2

\* C8: togglePageSelection(id) flips isSelected of the record with that id and
\* leaves every other field and every other record as it was; toggling the
\* result once more gives the list before the call.
C8_toggleFlipsOneRecord ==
    [][ last'.op = "togglePageSelection" =>
          LET id == last'.arg
          IN  /\ Len(pages') = Len(pages)
              /\ Cardinality({k \in 1..Len(pages) : pages[k].id = id}) = 1
              /\ \A k \in 1..Len(pages) :
                     pages'[k] = IF pages[k].id = id
                                 THEN [pages[k] EXCEPT !.isSelected = ~pages[k].isSelected]
                                 ELSE pages[k]
              /\ ToggleById(pages', id) = pages ]_vars

\* the middle card of three was clicked and is deselected, with a saved scene on
\* another record
C8_Witness ==
    /\ last = Op("togglePageSelection", 2)
    /\ Len(pages) = 3
    /\ ~pages[2].isSelected
    /\ pages[1].isSelected /\ pages[1].canvasState.defined

\* C10: startEditing sets currentEditIndex to the smallest index of a selected
\* record and the step to EDITOR; with no record selected it changes neither.
C10_startEditingOpensFirstSelected ==
    [][ last'.op = "startEditing" =>
          LET sel == {k \in 1..Len(pages) : pages[k].isSelected}
          IN  /\ pages' = pages
              /\ IF sel = {}
                 THEN step' = step /\ currentEditIndex' = currentEditIndex
                 ELSE /\ step' = EDITOR
                      /\ currentEditIndex' + 1 \in sel
                      /\ \A k \in sel : currentEditIndex' + 1 <= k ]_vars

\* the editor was opened on the third page, the first two being deselected
C10_Witness ==
    /\ last.op = "startEditing"
    /\ step = EDITOR
    /\ currentEditIndex = 2
    /\ ~pages[1].isSelected /\ ~pages[2].isSelected

\* C4: when handleProcessUploads succeeds on a PDF of n pages, pages holds n new
\* records in page order: originalIndex 1..n, each selected, without a canvasState
\* and carrying the file's name; none of the previous records is left, and the
\* step is SELECT_PAGES.
C4_uploadBuildsTheList ==
    [][ last'.op = "ProcessUploadsDone" =>
          LET n == numPages(uploadJob)
          IN  /\ Len(pages') = n
              /\ \A i \in 1..n :
                     /\ pages'[i].originalIndex = i
                     /\ pages'[i].isSelected
                     /\ ~pages'[i].canvasState.defined
                     /\ pages'[i].sourceFileName = uploadJob
                     /\ pages'[i].id \notin Ids(pages)
              /\ Cardinality(Ids(pages')) = n
              /\ step' = SELECT_PAGES ]_vars

\* a second upload has replaced a list that had a deselected record and a saved
\* scene by the records of the longer file
C4_Witness ==
    /\ last.op = "ProcessUploadsDone"
    /\ step = SELECT_PAGES
    /\ Len(pages) = MaxPdfPages
    /\ pages[1].id # 1
    /\ \A k \in 1..Len(pages) : pages[k].isSelected /\ ~pages[k].canvasState.defined

\* C9: confirmAddPages appends to pages, in dialog order, exactly the records of
\* the dialog list that are selected, keeps the records already there, closes the
\* dialog and empties the dialog list; cancelAddPages closes the dialog and empties
\* the dialog list and leaves pages as it was.
C9_addDialogAppendsSelected ==
    [][ /\ last'.op = "confirmAddPages" =>
             /\ pages' = pages \o SelectSeq(tempNewPages, LAMBDA p : p.isSelected)
             /\ ~isAddModalOpen'
             /\ tempNewPages' = <<>>
        /\ last'.op = "cancelAddPages" =>
             /\ pages' = pages
             /\ ~isAddModalOpen'
             /\ tempNewPages' = <<>> ]_vars

\* the first and third page of a three-page file were appended to a one-page list
C9_Witness ==
    /\ last.op = "confirmAddPages"
    /\ ~isAddModalOpen /\ tempNewPages = <<>>
    /\ Len(pages) = 3
    /\ pages[1].sourceFileName = "a.pdf"
    /\ pages[2].originalIndex = 1 /\ pages[2].sourceFileName = "b.pdf"
    /\ pages[3].originalIndex = 3

\* the pages of a saved document that hold an image, in document order
ImagePages(doc) == SelectSeq(doc, LAMBDA d : d.hasImage)

\* the records of a list that are selected, in list order
Chosen(ps) == SelectSeq(ps, LAMBDA p : p.isSelected)

\* C1: the document generatePDF saves holds one rendered image for each record
\* that was selected when the export started, in the order of the array at that
\* moment: no deselected record is rendered and no selected one is skipped.
C1_exportRendersTheSelection ==
    savedDoc # <<>> =>
        LET imgs == ImagePages(savedDoc)
            sel == Chosen(savedFrom)
        IN  /\ Len(imgs) = Len(sel)
            /\ \A k \in 1..Len(sel) : imgs[k].pageId = sel[k].id

\* an export of the first and third page was saved after the selection had been
\* changed on the page-selection screen
C1_Witness ==
    /\ last.op = "ExportSaved"
    /\ Len(savedFrom) = 3
    /\ Len(ImagePages(savedDoc)) = 2
    /\ ~savedFrom[2].isSelected
    /\ Chosen(pages) # Chosen(savedFrom)

\* C2: the saved document has exactly as many pages as there were selected
\* records when the export started, also when no record was selected.
C2_onePagePerSelectedRecord ==
    savedDoc # <<>> => Len(savedDoc) = Len(Chosen(savedFrom))

\* the layers of the scene the editor builds when it first opens a page, as saved
FirstOpenLayers(bgUrl, url) ==
    ToJSON(<<EditorBackground(bgUrl), EditorPageImage(url)>>).objects

\* C7: each page of the saved document shows the saved canvasState of its record
\* if the record had one when the export started, and otherwise the default
\* composition: the background at the bottom and the full-resolution page image
\* above it with blend mode multiply, the stack of layers of the scene the editor
\* builds when it first opens the page.
C7_exportRendersSavedOrDefault ==
    savedDoc # <<>> =>
        LET sel == Chosen(savedFrom)
            bg == DataUrl(bgImageFile)
        IN  \A k \in 1..Len(sel) :
               /\ k <= Len(savedDoc)
               /\ savedDoc[k].hasImage
               /\ IF sel[k].canvasState.defined
                  THEN savedDoc[k].objects = sel[k].canvasState.objects
                  ELSE /\ savedDoc[k].objects = FirstOpenLayers(bg, sel[k].fullResUrl)
                       /\ Len(savedDoc[k].objects) = 2
                       /\ savedDoc[k].objects[1].src = bg
                       /\ savedDoc[k].objects[2].src = sel[k].fullResUrl
                       /\ savedDoc[k].objects[2].globalCompositeOperation = "multiply"

\* a saved document whose first page shows an edited scene and whose second page
\* was never opened in the editor
C7_Witness ==
    /\ last.op = "ExportSaved"
    /\ Len(savedDoc) = 3
    /\ savedFrom[1].canvasState.defined
    /\ savedDoc[1].objects #
           FirstOpenLayers(DataUrl(bgImageFile), savedFrom[1].fullResUrl)
    /\ ~savedFrom[2].canvasState.defined

\* C5: every page image of a saved document has the background as its bottom
\* layer, whatever was done in the editor before.
C5_backgroundIsBottomLayer ==
    \A k \in 1..Len(savedDoc) :
        savedDoc[k].hasImage =>
            /\ savedDoc[k].objects # <<>>
            /\ savedDoc[k].objects[1].src = DataUrl(bgImageFile)

\* C6: a scene saved through a canvas that was mounted for one page is stored in
\* the record of that page only: a record whose canvasState a step changes is
\* the record of the page the saving canvas was mounted for.
C6_sceneStoredInOwnRecord ==
    [][ \A k \in 1..Len(pages) :
           ( /\ k <= Len(pages')
             /\ pages'[k].id = pages[k].id
             /\ pages'[k].canvasState # pages[k].canvasState )
           => last'.arg = pages[k].id ]_vars

\* C11: whenever the step is EDITOR or EXPORTING, currentEditIndex is an index of
\* the page list and the record at that index is selected.
C11_editorShowsSelectedPage ==
    step \in EditorSteps =>
        /\ currentEditIndex < Len(pages)
        /\ pages[currentEditIndex + 1].isSelected

\* C12: at most one export is in progress at any time.
C12_oneExportAtATime == Len(exports) <= 1

C14_addFailureClosesEmptyDialog ==
    [][ last'.op = "AddPdfFailed" =>
            /\ ~isAddModalOpen'
            /\ tempNewPages' = <<>>
            /\ pages' = pages
            /\ ~isProcessingNew' ]_vars

\* C15: when a page of an export fails to render, nothing is saved, the page list
\* is as it was, and exportProgress has not reached 100 during that export.
C15_failedExportSavesNothing ==
    [][ last'.op = "ExportFailed" =>
            /\ savedDoc' = <<>>
            /\ pages' = pages
            /\ exportProgress' < 100 ]_vars

\* the call of generatePDF numbered n is in flight
Running(n) == \E e \in 1..Len(exports) : exports[e].n = n

\* C16: every call of generatePDF that starts comes to its end; the step that ends
\* a call, by saving or by catching an error, leaves step = EDITOR; and step is
\* EXPORTING only while a call is in flight.
C16_everyExportEndsInEditor ==
    /\ \A n \in 1..MaxOverlap : Running(n) ~> ~Running(n)
    /\ [][last'.op \in {"ExportSaved", "ExportFailed"} => step' = EDITOR]_vars
    /\ [](step = EXPORTING => exports # <<>>)

\* a call has ended, leaving the editor open, while a later call is still in flight
C16_Witness ==
    /\ last.op \in {"ExportSaved", "ExportFailed"}
    /\ step = EDITOR
    /\ Len(exports) = 1
    /\ Running(2)

\* the steps that complete an editor operation on the current page
EditorOps ==
    { "LoadPageImageDone", "LoadStateDone", "StampLoaded", "objectModified",
      "updateSelectedProp", "deleteSelected", "duplicateSelected", "rotateSelected",
      "bringForward" }

\* the canvasState stored for the page shown is the serialization of the canvas
StoredIsScene ==
    pages[canvas.idx + 1].canvasState = ToJSON(canvas.objects)

\* C17 as stated: after every completed editor operation on the current page the
\* stored canvasState is the serialization of the scene on the canvas.
C17_storedStateIsTheScene ==
    [][ last'.op \in EditorOps /\ canvas'.mounted => StoredIsScene' ]_vars

====
